---- MODULE Spec2Model ----
(***************************************************************************)
(* Velocity-cliff analysis (utils/VelocityCliffAnalyzer.py with the parts  *)
(* of utils/DataPipeline.py it calls): the rolling-mean smoothing, the     *)
(* CUSUM detector, the Metropolis changepoint search and the orchestrator  *)
(* run_full_analysis.                                                      *)
(*                                                                         *)
(* Numbers.  release_speed is an integer (mph); estimated wOBA is an       *)
(* integer number of thousandths (300 is 0.300), so k = 0.005 is 5.  Every *)
(* float64 expression of the source is evaluated exactly, as a rational    *)
(* over a common denominator: rounding error of the float arithmetic is    *)
(* not modelled.  Quantities that exceed 32 bits are kept as naturals in   *)
(* base 10^4 (Big...).                                                     *)
(*                                                                         *)
(* A DataFrame is the sequence of its rows, a row a record                 *)
(* [speed, woba, ptype]; NaN marks a missing speed or wOBA.                *)
(***************************************************************************)
EXTENDS Integers, Sequences, FiniteSets, TLC

----------------------------------------------------------------------------
(* Bounds of the model. *)

\* longest frame of arbitrary rows held by the season files
MaxShort == 2
\* longest frame of the step-shaped families
MaxLen == 12
\* iterations of the sampling loop (n_samples, 5000 in the source)
NSamples == 2
\* top-level calls made on one analyzer object
MaxCalls == 2
\* longest frame of arbitrary complete rows handed to a detector directly
MaxClean == 3

----------------------------------------------------------------------------
(* Program constants. *)

\* window_size = 10
window_size == 10
\* k = 0.005, in thousandths
k == 5
\* h = 0.02, in thousandths
h == 20
\* np.random.randint(5, n-5): the edge margin
Margin == 5

NaN == -1

----------------------------------------------------------------------------
(* Integer helpers. *)

Max(a, b) == IF a >= b THEN a ELSE b
Min(a, b) == IF a <= b THEN a ELSE b
Abs(a) == IF a >= 0 THEN a ELSE -a

RECURSIVE Gcd(_, _)
Gcd(a, b) == IF b = 0 THEN a ELSE Gcd(b, a % b)

RECURSIVE LcmUpTo(_)
LcmUpTo(m) == IF m <= 1 THEN 1
              ELSE LET l == LcmUpTo(m - 1) IN (l * m) \div Gcd(l, m)

\* common denominator of all window means: a window holds 1..window_size rows
Scale == LcmUpTo(window_size)

RECURSIVE SumSeq(_)
SumSeq(s) == IF s = <<>> THEN 0 ELSE Head(s) + SumSeq(Tail(s))

RECURSIVE TupleFrom(_, _)
TupleFrom(f, i) == IF i > Len(f) THEN <<>> ELSE <<f[i]>> \o TupleFrom(f, i + 1)

\* the sequence f with every element evaluated once
Tuple(f) == TupleFrom(f, 1)

\* s[a+1 .. b] in 1-based terms: the Python slice s[a:b]
Slice(s, a, b) == SubSeq(s, a + 1, b)

----------------------------------------------------------------------------
(* Naturals beyond 32 bits: little-endian digit sequences in base 10^4. *)

Base == 10000

RECURSIVE BigNorm(_, _)
\* digits with pending carry c, every digit and c below 2*10^9
BigNorm(d, c) ==
    IF d = <<>> THEN (IF c = 0 THEN <<>> ELSE <<c % Base>> \o BigNorm(<<>>, c \div Base))
    ELSE LET v == Head(d) + c IN <<v % Base>> \o BigNorm(Tail(d), v \div Base)

RECURSIVE BigTrim(_)
BigTrim(d) == IF d # <<>> /\ d[Len(d)] = 0 THEN BigTrim(SubSeq(d, 1, Len(d) - 1)) ELSE d

BigOf(m) == BigTrim(BigNorm(<<>>, m))

RECURSIVE BigAddRaw(_, _)
BigAddRaw(a, b) ==
    IF a = <<>> THEN b
    ELSE IF b = <<>> THEN a
    ELSE <<Head(a) + Head(b)>> \o BigAddRaw(Tail(a), Tail(b))

BigAdd(a, b) == BigTrim(BigNorm(BigAddRaw(a, b), 0))

\* a times a small natural s < 10^5
BigMulSmall(a, s) == BigTrim(BigNorm(Tuple([i \in 1..Len(a) |-> a[i] * s]), 0))

RECURSIVE BigMul(_, _)
BigMul(a, b) ==
    IF b = <<>> THEN <<>>
    ELSE BigAdd(BigMulSmall(a, Head(b)), <<0>> \o BigMul(a, Tail(b)))

RECURSIVE BigCmpFrom(_, _, _)
BigCmpFrom(a, b, i) ==
    IF i = 0 THEN 0
    ELSE IF a[i] < b[i] THEN -1
    ELSE IF a[i] > b[i] THEN 1
    ELSE BigCmpFrom(a, b, i - 1)

\* -1, 0, 1 as a < b, a = b, a > b (both trimmed)
BigCmp(a, b) ==
    IF Len(a) < Len(b) THEN -1
    ELSE IF Len(a) > Len(b) THEN 1
    ELSE BigCmpFrom(a, b, Len(a))

\* m squared, from the three base-10^4 digits a, b, c of |m|
BigSquare(m) ==
    LET v == Abs(m)
        a == v % Base
        b == (v \div Base) % Base
        c == v \div (Base * Base)
    IN  BigTrim(BigNorm(<<a * a, 2 * a * b, b * b + 2 * a * c, 2 * b * c, c * c>>, 0))

RECURSIVE BigSumRaw(_)
\* digit-wise sum of at most 10^5 naturals, carries pending
BigSumRaw(s) == IF s = <<>> THEN <<>> ELSE BigAddRaw(Head(s), BigSumRaw(Tail(s)))

BigSum(s) == BigTrim(BigNorm(BigSumRaw(s), 0))

----------------------------------------------------------------------------
(* DataFrames. *)

Row(s, w, p) == [speed |-> s, woba |-> w, ptype |-> p]

Speeds(f) == Tuple([i \in 1..Len(f) |-> f[i].speed])
Wobas(f) == Tuple([i \in 1..Len(f) |-> f[i].woba])

RECURSIVE RowsOfType(_, _)
\* player_data[player_data['pitch_type'] == pitch_type]
RowsOfType(f, p) ==
    IF f = <<>> THEN <<>>
    ELSE (IF Head(f).ptype = p THEN <<Head(f)>> ELSE <<>>) \o RowsOfType(Tail(f), p)

RECURSIVE DropNa(_)
\* dropna(subset=['release_speed', 'estimated_woba_using_speedangle'])
DropNa(f) ==
    IF f = <<>> THEN <<>>
    ELSE (IF Head(f).speed # NaN /\ Head(f).woba # NaN THEN <<Head(f)>> ELSE <<>>)
         \o DropNa(Tail(f))

RECURSIVE InsertBySpeed(_, _)
InsertBySpeed(sorted, r) ==
    IF sorted = <<>> THEN <<r>>
    ELSE IF Head(sorted).speed <= r.speed
         THEN <<Head(sorted)>> \o InsertBySpeed(Tail(sorted), r)
         ELSE <<r>> \o sorted

RECURSIVE SortBySpeed(_)
\* sort_values(by='release_speed').reset_index(drop=True) on a frame without
\* missing speeds.  numpy's default sort is an insertion sort below 17
\* elements, so rows of equal speed keep their order.
SortBySpeed(f) ==
    IF f = <<>> THEN <<>>
    ELSE InsertBySpeed(SortBySpeed(SubSeq(f, 1, Len(f) - 1)), f[Len(f)])

\* the sort done in place
AfterSortValuesInPlace(f) == SortBySpeed(f)

\* what df.sort_values(by=...) leaves in df: the call returns a new frame
\* (inplace=False), df keeps its rows and their order
AfterSortValues(f) == f

----------------------------------------------------------------------------
(* Smoothing: y.rolling(window=window_size, center=True, min_periods=1).mean() *)

\* a trailing window (center=False)
WindowStartTrailing(i, n) == Max(0, (i + 1) - window_size)

\* pandas' fixed window of 0-based position i: end = i + 1 + (window-1)//2,
\* start = end - window, both clipped to [0, n]; the window is y[start:end]
WindowEnd(i, n) == Min(n, i + 1 + ((window_size - 1) \div 2))
WindowStart(i, n) == Max(0, (i + 1 + ((window_size - 1) \div 2)) - window_size)

\* the window's sum over the full width, whatever the number of rows in it
WindowMeanFullWidth(y, i) ==
    LET lo == WindowStart(i, Len(y))
        hi == WindowEnd(i, Len(y))
    IN  SumSeq(Slice(y, lo, hi)) * (Scale \div window_size)

\* the mean of the window of 0-based position i, times Scale
WindowMean(y, i) ==
    LET lo == WindowStart(i, Len(y))
        hi == WindowEnd(i, Len(y))
    IN  SumSeq(Slice(y, lo, hi)) * (Scale \div (hi - lo))

\* the smoothed series, every element times Scale
RollingMean(y) == Tuple([j \in 1..Len(y) |-> WindowMean(y, j - 1)])

----------------------------------------------------------------------------
(* CUSUM statistic (perform_cusum_analysis, lines 151-166).  With n = len,  *)
(* deviations and statistic are held times Scale * n.                       *)

\* target = y_smoothed.mean(), times Scale * n
Target(ys) == SumSeq(ys)

\* deviations = y_smoothed - target, times Scale * n
Deviations(ys) ==
    LET target == Target(ys)
    IN  Tuple([i \in 1..Len(ys) |-> Len(ys) * ys[i] - target])

RECURSIVE CumSum(_)
\* np.cumsum
CumSum(s) ==
    IF s = <<>> THEN <<>>
    ELSE LET prev == CumSum(SubSeq(s, 1, Len(s) - 1))
         IN  prev \o <<(IF prev = <<>> THEN 0 ELSE prev[Len(prev)]) + s[Len(s)]>>

\* the statistic of the lower side: np.maximum(0, np.cumsum(-deviations - k))
CusumStatisticLowerSided(ys) ==
    LET n == Len(ys)
        d == Deviations(ys)
        c == CumSum(Tuple([i \in 1..n |-> (-d[i]) - k * Scale * n]))
    IN  Tuple([i \in 1..n |-> Max(0, c[i])])

\* np.maximum(0, np.cumsum(deviations - k))
CusumStatistic(ys) ==
    LET n == Len(ys)
        d == Deviations(ys)
        c == CumSum(Tuple([i \in 1..n |-> d[i] - k * Scale * n]))
    IN  Tuple([i \in 1..n |-> Max(0, c[i])])

\* the last position holding the maximum
ArgMaxLast(s) == CHOOSE i \in 1..Len(s) :
                     /\ \A j \in 1..Len(s) : s[j] <= s[i]
                     /\ \A j \in (i + 1)..Len(s) : s[j] < s[i]

\* np.argmax: the first position (1-based here) holding the maximum
ArgMax(s) == CHOOSE i \in 1..Len(s) :
                 /\ \A j \in 1..Len(s) : s[j] <= s[i]
                 /\ \A j \in 1..(i - 1) : s[j] < s[i]

----------------------------------------------------------------------------
(* The changepoint search (perform_bayesian_changepoint_analysis).  A mean  *)
(* is the rational num/den of a sum of smoothed values (each times Scale)   *)
(* over the number of rows; den = 0 is the NaN that np.mean gives for an    *)
(* empty slice.                                                             *)

\* np.mean(y[a:b])
MeanOf(y, a, b) == [num |-> SumSeq(Slice(y, a, b)), den |-> Max(0, b - a)]

\* np.std(y) squared, as num / den with num a Big natural:
\* sum((n*y[i] - sum(y))^2) / n^3
VarianceOf(y) ==
    LET n == Len(y)
        total == SumSeq(y)
    IN  [num |-> BigSum(Tuple([i \in 1..n |-> BigSquare(n * y[i] - total)])),
         den |-> n * n * n]

\* sum((y[i] - mu)^2 for y[a:b]), times mu.den^2
SquaredResiduals(y, a, b, mu) ==
    BigSum(Tuple([i \in 1..(b - a) |-> BigSquare(mu.den * y[a + i] - mu.num)]))

\* The part of log_likelihood(y, mu1, mu2, sigma, cp) that depends on the
\* split: the residual sum of squares of both segments, as num / den.
\* log_likelihood is -rss / (2 sigma^2) - n log(sigma sqrt(2 pi)).
ResidualSumOfSquares(y, mu1, mu2, cp) ==
    LET r1 == SquaredResiduals(y, 0, cp, mu1)
        r2 == SquaredResiduals(y, cp, Len(y), mu2)
    IN  [num |-> BigAdd(BigMulSmall(r1, mu2.den * mu2.den),
                        BigMulSmall(r2, mu1.den * mu1.den)),
         den |-> (mu1.den * mu2.den) * (mu1.den * mu2.den)]

\* log_likelihood(y, mu1, mu2, sigma, cp): nan when sigma = 0 (norm.logpdf
\* with scale 0), else the residual sum of squares it decreases with
log_likelihood(y, mu1, mu2, sigma, cp) ==
    IF sigma.num = <<>> THEN [nan |-> TRUE]
    ELSE [nan |-> FALSE, rss |-> ResidualSumOfSquares(y, mu1, mu2, cp)]

\* alpha = np.exp(log_lik_new - log_lik_old), as far as the comparison with a
\* draw from [0, 1) needs it: "nan" when a log-likelihood is, "ge1" when the
\* new split fits at least as well, else "lt1".  The difference is at least
\* -n/2, so exp does not underflow to 0.
Alpha(log_lik_new, log_lik_old) ==
    IF log_lik_new.nan \/ log_lik_old.nan THEN "nan"
    ELSE IF BigCmp(BigMulSmall(log_lik_new.rss.num, log_lik_old.rss.den),
                   BigMulSmall(log_lik_old.rss.num, log_lik_new.rss.den)) <= 0 THEN "ge1"
    ELSE "lt1"

\* np.random.rand() draws u from [0, 1); the two extreme draws stand for all:
\* "min" is 0.0, "max" the largest float below 1.
Draws == {"min", "max"}

\* np.random.rand() < alpha
Accepts(u, alpha) == alpha = "ge1" \/ (alpha = "lt1" /\ u = "min")

Count(s, v) == Cardinality({i \in 1..Len(s) : s[i] = v})

\* the largest most frequent value
ModeLargest(s) == CHOOSE v \in {s[i] : i \in 1..Len(s)} :
                      \A w \in {s[i] : i \in 1..Len(s)} :
                          Count(s, w) < Count(s, v) \/ (Count(s, w) = Count(s, v) /\ w <= v)

\* np.bincount(cp_samples).argmax(): the smallest most frequent value
Mode(s) == CHOOSE v \in {s[i] : i \in 1..Len(s)} :
               \A w \in {s[i] : i \in 1..Len(s)} :
                   Count(s, w) < Count(s, v) \/ (Count(s, w) = Count(s, v) /\ v <= w)

----------------------------------------------------------------------------
(* Inputs. *)

PitchTypes == {"FF", "SL"}
LowWoba == 300
HighWoba == 500
BaseSpeed == 90

SeqsUpTo(S, m) == UNION {[1..j -> S] : j \in 0..m}

\* rows as the season files hold them: any pitch type, values possibly missing
RawRows ==
    {Row(v[1], v[2], p) :
        v \in {<<BaseSpeed, LowWoba>>, <<BaseSpeed + 1, HighWoba>>,
               <<NaN, LowWoba>>, <<BaseSpeed, NaN>>},
        p \in PitchTypes}

\* complete fastball rows
CleanRows == {Row(s, w, "FF") : s \in {BaseSpeed, BaseSpeed + 1}, w \in {LowWoba, HighWoba}}

\* n fastballs of speeds BaseSpeed, BaseSpeed + 1, ...; the rows at 0-based
\* positions a .. b-1 have wOBA inner, the others outer
StepFrame(n, a, b, outer, inner) ==
    Tuple([i \in 1..n |-> Row(BaseSpeed + i - 1, IF a < i /\ i <= b THEN inner ELSE outer, "FF")])

WobaPairs == {<<LowWoba, HighWoba>>, <<HighWoba, LowWoba>>}

\* one change of level: low then high, or high then low
StepFrames ==
    {StepFrame(na[1], na[2], na[1], w[1], w[2]) :
        na \in {x \in ((window_size \div 2 + 1)..MaxLen) \X (0..MaxLen) : x[2] <= x[1]},
        w \in WobaPairs}

\* two changes of level, on frames of about a window's length
BumpFrames ==
    {StepFrame(nab[1], nab[2], nab[3], w[1], w[2]) :
        nab \in {x \in ((window_size - 2)..window_size) \X (0..MaxLen) \X (0..MaxLen) :
                     x[2] <= x[3] /\ x[3] <= x[1]},
        w \in WobaPairs}

LongFrames == StepFrames \cup BumpFrames

\* a season of fastballs with one slider among them
MixedFrames ==
    {<<Row(BaseSpeed + 2, HighWoba, "SL")>>
         \o StepFrame(2 * Margin + 1, Margin + 1, 2 * Margin + 1, LowWoba, HighWoba)}

\* the rows the season file can hold for a resolved player
RawFrames == SeqsUpTo(RawRows, MaxShort) \cup LongFrames \cup MixedFrames

\* the one season the data directory holds a file for
SeasonOnFile == 2023

\* (start_year, end_year) of a request: the season on file, or two years in
\* the wrong order; a request of the second kind is made on the mixed season
\* and on frames of at most one row
YearRanges == {<<SeasonOnFile, SeasonOnFile>>, <<SeasonOnFile + 1, SeasonOnFile>>}

\* frames a caller hands to a detector directly
DetectorFrames == (SeqsUpTo(CleanRows, MaxClean) \ {<<>>}) \cup LongFrames

----------------------------------------------------------------------------
(* State. *)

VARIABLES
    calls,              \* top-level calls started on the analyzer
    rng_pos,            \* position of numpy's global generator in its stream:
                        \* np.random.randint and np.random.rand each read the
                        \* generator's state and advance it by one draw
    entry,              \* the public method running: "none", "full", "cusum", "bayes"
    pc,                 \* where that call stands
    request,            \* arguments of run_full_analysis and what the data layer holds
    pitcher_data,       \* run_full_analysis: pitcher_data
    fastball_data,      \* the frame handed to the detectors
    cusum_locals,       \* perform_cusum_analysis: its local variables
    bayes_locals,       \* perform_bayesian_changepoint_analysis: its local variables
    cusum_threshold,    \* run_full_analysis: cusum_threshold
    bayesian_threshold, \* run_full_analysis: bayesian_threshold
    outcome,            \* "none", "returned", "raised"
    result,             \* the value returned, or the exception raised
    earlier,            \* a caller's note of what an earlier call of
                        \* perform_cusum_analysis returned, and for which frame
    files_read          \* the seasons whose file the running call has read

vars == <<calls, rng_pos, entry, pc, request, pitcher_data, fastball_data,
          cusum_locals, bayes_locals, cusum_threshold, bayesian_threshold,
          outcome, result, earlier, files_read>>

None == -2
NoFrame == [none |-> TRUE, rows |-> <<>>]
Frame(f) == [none |-> FALSE, rows |-> f]
NoLocals == [live |-> FALSE]
NoRequest == [name_parts |-> 0, found |-> FALSE, start_year |-> 0, end_year |-> 0,
              raw |-> <<>>, pitch_type |-> "FF"]
NoResult == [pending |-> TRUE]
NoNote == [noted |-> FALSE]

Init ==
    /\ calls = 0
    /\ rng_pos = 0
    /\ entry = "none"
    /\ pc = "idle"
    /\ request = NoRequest
    /\ pitcher_data = NoFrame
    /\ fastball_data = <<>>
    /\ cusum_locals = NoLocals
    /\ bayes_locals = NoLocals
    /\ cusum_threshold = None
    /\ bayesian_threshold = None
    /\ outcome = "none"
    /\ result = NoResult
    /\ earlier = NoNote
    /\ files_read = {}

\* a top-level call can start
CanCall == pc = "idle" /\ calls < MaxCalls

\* a top-level call starts
FreshCall(e, at) ==
    /\ calls' = calls + 1
    /\ entry' = e
    /\ pc' = at
    /\ UNCHANGED <<earlier, files_read, rng_pos, pitcher_data, cusum_locals, bayes_locals,
                   cusum_threshold, bayesian_threshold, outcome, result>>

\* the caller has taken the result (or the exception): the frames of the call
\* are gone, the analyzer and numpy's generator stay
Release ==
    /\ pc = "done"
    /\ pc' = "idle"
    /\ entry' = "none"
    /\ request' = NoRequest
    /\ pitcher_data' = NoFrame
    /\ fastball_data' = <<>>
    /\ cusum_locals' = NoLocals
    /\ bayes_locals' = NoLocals
    /\ cusum_threshold' = None
    /\ bayesian_threshold' = None
    /\ outcome' = "none"
    /\ result' = NoResult
    /\ files_read' = {}
    /\ UNCHANGED <<earlier, calls, rng_pos>>

----------------------------------------------------------------------------
(* DataPipeline. *)

\* get_pitch_type_data
get_pitch_type_data(player_data, pitch_type) == RowsOfType(player_data, pitch_type)

\* the preparation without the removal of incomplete rows
prepare_without_dropna(player_data, pitch_type) ==
    LET pitch_data == get_pitch_type_data(player_data, pitch_type)
    IN  IF Len(pitch_data) = 0 THEN <<>> ELSE SortBySpeed(pitch_data)

\* the preparation without the sort by release_speed
prepare_without_sort(player_data, pitch_type) ==
    LET pitch_data == get_pitch_type_data(player_data, pitch_type)
    IN  IF Len(pitch_data) = 0 THEN <<>> ELSE DropNa(pitch_data)

\* the preparation that looks for rows of the pitch type and then keeps all
prepare_without_filter(player_data, pitch_type) ==
    LET pitch_data == get_pitch_type_data(player_data, pitch_type)
    IN  IF Len(pitch_data) = 0 THEN <<>>
        ELSE SortBySpeed(DropNa(player_data))

\* prepare_velocity_analysis_data
prepare_velocity_analysis_data(player_data, pitch_type) ==
    LET pitch_data == get_pitch_type_data(player_data, pitch_type)
    IN  IF Len(pitch_data) = 0 THEN <<>>
        ELSE SortBySpeed(DropNa(pitch_data))

\* the seasons from the lower to the higher of the two years, whatever their
\* order
get_player_data_either_order(req) ==
    LET years == Min(req.start_year, req.end_year)..Max(req.start_year, req.end_year)
    IN  [files_read |-> years \cap {SeasonOnFile},
         data |-> IF SeasonOnFile \in years THEN req.raw ELSE <<>>]

\* get_player_data: for year in range(start_year, end_year + 1) the season's
\* file is read when it exists, and the player's rows of the files read are
\* concatenated (req.raw: the rows the file on disk holds for the player)
get_player_data(req) ==
    LET years == req.start_year..req.end_year
    IN  [files_read |-> years \cap {SeasonOnFile},
         data |-> IF SeasonOnFile \in years THEN req.raw ELSE <<>>]

\* get_pitcher_data_by_name: an empty frame when the player is not resolved,
\* else the player's rows of the requested seasons
get_pitcher_data_by_name(req) ==
    IF req.found THEN get_player_data(req) ELSE [files_read |-> {}, data |-> <<>>]

\* analyze_pitcher: None, or the prepared frame
analyze_pitcher(req) ==
    IF req.name_parts < 2 THEN NoFrame
    ELSE LET data == get_pitcher_data_by_name(req).data
         IN  IF Len(data) = 0 THEN NoFrame
             ELSE Frame(prepare_velocity_analysis_data(data, req.pitch_type))

\* the season files analyze_pitcher has had read
SeasonFilesRead(req) ==
    IF req.name_parts < 2 THEN {} ELSE get_pitcher_data_by_name(req).files_read

----------------------------------------------------------------------------
(* Top-level calls. *)

\* a caller invokes run_full_analysis(player_name, start_year, end_year, pitch_type)
CallRunFullAnalysis ==
    /\ CanCall
    /\ \E parts \in {1, 2}, found \in BOOLEAN, raw \in RawFrames, p \in PitchTypes,
          years \in YearRanges :
           /\ (parts < 2 \/ ~found) => raw = <<>>
           /\ years[1] > years[2] => (Len(raw) <= 1 \/ raw \in MixedFrames)
           /\ request' = [name_parts |-> parts, found |-> found,
                          start_year |-> years[1], end_year |-> years[2],
                          raw |-> raw, pitch_type |-> p]
    /\ FreshCall("full", "analyze")
    /\ fastball_data' = <<>>

\* a caller invokes perform_cusum_analysis(fastball_data, player_name)
CallCusum ==
    /\ CanCall
    /\ fastball_data' \in DetectorFrames
    /\ FreshCall("cusum", "cusum")
    /\ request' = NoRequest

\* a caller invokes perform_bayesian_changepoint_analysis(fastball_data, player_name)
CallBayes ==
    /\ CanCall
    /\ fastball_data' \in DetectorFrames
    /\ FreshCall("bayes", "bayes")
    /\ request' = NoRequest

\* the running top-level call returns v
Return(v) ==
    /\ pc' = "done"
    /\ outcome' = "returned"
    /\ result' = v

\* an exception leaves the running top-level call
Raise(e) ==
    /\ pc' = "done"
    /\ outcome' = "raised"
    /\ result' = [exception |-> e]

----------------------------------------------------------------------------
(* run_full_analysis. *)

\* pitcher_data = self.analyze_pitcher(...)
AnalyzePitcher ==
    /\ pc = "analyze"
    /\ pitcher_data' = analyze_pitcher(request)
    /\ files_read' = SeasonFilesRead(request)
    /\ pc' = "check"
    /\ UNCHANGED <<earlier, calls, rng_pos, entry, request, fastball_data, cusum_locals,
                   bayes_locals, cusum_threshold, bayesian_threshold, outcome, result>>

\* if pitcher_data is None or len(pitcher_data) == 0: return {'error': ...}
CheckPitcherData ==
    /\ pc = "check"
    /\ IF pitcher_data.none \/ Len(pitcher_data.rows) = 0
       THEN Return([error |-> "No data found for player"])
       ELSE pc' = "filter" /\ UNCHANGED <<outcome, result>>
    /\ UNCHANGED <<earlier, files_read, calls, rng_pos, entry, request, pitcher_data, fastball_data,
                   cusum_locals, bayes_locals, cusum_threshold, bayesian_threshold>>

\* fastball_data = get_pitch_type_data(pitcher_data, pitch_type), and the
\* check of its length
GetFastballData ==
    /\ pc = "filter"
    /\ fastball_data' = get_pitch_type_data(pitcher_data.rows, request.pitch_type)
    /\ IF Len(fastball_data') = 0
       THEN Return([error |-> "No pitch type data found"])
       ELSE pc' = "cusum" /\ UNCHANGED <<outcome, result>>
    /\ UNCHANGED <<earlier, files_read, calls, rng_pos, entry, request, pitcher_data, cusum_locals,
                   bayes_locals, cusum_threshold, bayesian_threshold>>

\* the average taken with floor division
AverageOfFloorDiv(a, b) == [num |-> (a + b) \div 2, den |-> 1]

\* (cusum_threshold + bayesian_threshold) / 2
AverageOf(a, b) == [num |-> a + b, den |-> 2]

\* a result that carries the Bayesian threshold only when it differs
ResultsPartial(total, fastballs, cusum, bayesian) ==
    IF cusum = bayesian
    THEN [total_pitches |-> total, fastball_pitches |-> fastballs,
          cusum_threshold |-> cusum]
    ELSE [total_pitches |-> total, fastball_pitches |-> fastballs,
          cusum_threshold |-> cusum, bayesian_threshold |-> bayesian,
          average_threshold |-> AverageOf(cusum, bayesian)]

\* results = {...} (player_name and years, which echo the arguments, left out)
Results(total, fastballs, cusum, bayesian) ==
    [total_pitches |-> total,
     fastball_pitches |-> fastballs,
     cusum_threshold |-> cusum,
     bayesian_threshold |-> bayesian,
     average_threshold |-> AverageOf(cusum, bayesian)]

\* results = {...}; return results
CompileResults ==
    /\ pc = "compile"
    /\ Return(Results(Len(pitcher_data.rows), Len(fastball_data),
                      cusum_threshold, bayesian_threshold))
    /\ UNCHANGED <<earlier, files_read, calls, rng_pos, entry, request, pitcher_data, fastball_data,
                   cusum_locals, bayes_locals, cusum_threshold, bayesian_threshold>>

----------------------------------------------------------------------------
(* perform_cusum_analysis. *)

\* the alarm rule: the first position where the statistic exceeds h, and the
\* position of the maximum only when none does
CusumLocalsFirstAlarm(data) ==
    LET fastball_data_sorted == SortBySpeed(data)
        y_smoothed == RollingMean(Wobas(fastball_data_sorted))
        cusum == CusumStatistic(y_smoothed)
        above == {i \in 1..Len(cusum) : cusum[i] > h * Scale * Len(cusum)}
        threshold_idx == IF above = {} THEN ArgMax(cusum)
                         ELSE CHOOSE i \in above : \A j \in above : i <= j
    IN  [live |-> TRUE,
         x_data |-> Speeds(fastball_data_sorted),
         y_data |-> Wobas(fastball_data_sorted),
         y_smoothed |-> y_smoothed,
         cusum |-> cusum,
         threshold_idx |-> threshold_idx - 1,
         velocity_threshold |-> Speeds(fastball_data_sorted)[threshold_idx]]

\* ties of the maximum broken by a draw from numpy's generator
CusumLocalsRandomTie(data) ==
    LET fastball_data_sorted == SortBySpeed(data)
        y_smoothed == RollingMean(Wobas(fastball_data_sorted))
        cusum == CusumStatistic(y_smoothed)
        ties == {i \in 1..Len(cusum) : cusum[i] = cusum[ArgMax(cusum)]}
        threshold_idx == CHOOSE i \in ties :
                             Cardinality({j \in ties : j < i}) = rng_pos % Cardinality(ties)
    IN  [live |-> TRUE,
         x_data |-> Speeds(fastball_data_sorted),
         y_data |-> Wobas(fastball_data_sorted),
         y_smoothed |-> y_smoothed,
         cusum |-> cusum,
         threshold_idx |-> threshold_idx - 1,
         velocity_threshold |-> Speeds(fastball_data_sorted)[threshold_idx]]

\* lines 141-166: sort, smooth, statistic, argmax
CusumLocals(data) ==
    LET fastball_data_sorted == SortBySpeed(data)
        y_smoothed == RollingMean(Wobas(fastball_data_sorted))
        cusum == CusumStatistic(y_smoothed)
        threshold_idx == ArgMax(cusum)
    IN  [live |-> TRUE,
         x_data |-> Speeds(fastball_data_sorted),
         y_data |-> Wobas(fastball_data_sorted),
         y_smoothed |-> y_smoothed,
         cusum |-> cusum,
         threshold_idx |-> threshold_idx - 1,
         velocity_threshold |-> Speeds(fastball_data_sorted)[threshold_idx]]

CusumCompute ==
    /\ pc = "cusum"
    /\ cusum_locals' = CusumLocals(fastball_data)
    /\ fastball_data' = AfterSortValues(fastball_data)
    /\ pc' = "cusum_ret"
    /\ UNCHANGED <<earlier, files_read, calls, rng_pos, entry, request, pitcher_data,
                   bayes_locals, cusum_threshold, bayesian_threshold, outcome, result>>

\* a return only when the statistic has crossed the decision threshold h
CusumReturnOnAlarm ==
    /\ pc = "cusum_ret"
    /\ IF \A i \in 1..Len(cusum_locals.cusum) :
              cusum_locals.cusum[i] <= h * Scale * Len(cusum_locals.cusum)
       THEN Raise("ValueError") /\ UNCHANGED cusum_threshold
       ELSE IF entry = "full"
       THEN /\ cusum_threshold' = cusum_locals.velocity_threshold
            /\ pc' = "bayes"
            /\ UNCHANGED <<outcome, result>>
       ELSE /\ Return([threshold |-> cusum_locals.velocity_threshold])
            /\ UNCHANGED cusum_threshold
    /\ UNCHANGED <<earlier, files_read, calls, rng_pos, entry, request, pitcher_data, fastball_data,
                   cusum_locals, bayes_locals, bayesian_threshold>>

\* return velocity_threshold
CusumReturn ==
    /\ pc = "cusum_ret"
    /\ IF entry = "full"
       THEN /\ cusum_threshold' = cusum_locals.velocity_threshold
            /\ pc' = "bayes"
            /\ UNCHANGED <<outcome, result>>
       ELSE /\ Return([threshold |-> cusum_locals.velocity_threshold])
            /\ UNCHANGED cusum_threshold
    /\ UNCHANGED <<earlier, files_read, calls, rng_pos, entry, request, pitcher_data, fastball_data,
                   cusum_locals, bayes_locals, bayesian_threshold>>

----------------------------------------------------------------------------
(* perform_bayesian_changepoint_analysis. *)

\* the search on a series smoothed over a trailing window
BayesLocalsTrailingWindow(data) ==
    LET fastball_data_sorted == SortBySpeed(data)
        y_data == Wobas(fastball_data_sorted)
        y == Tuple([j \in 1..Len(y_data) |->
                       SumSeq(Slice(y_data, WindowStartTrailing(j - 1, Len(y_data)), j))
                           * (Scale \div (j - WindowStartTrailing(j - 1, Len(y_data))))])
        n == Len(y)
        cp == n \div 2
    IN  [live |-> TRUE,
         x_data |-> Speeds(fastball_data_sorted),
         y_data |-> y_data,
         y_smoothed |-> y,
         n |-> n,
         cp |-> cp,
         mu1 |-> MeanOf(y, 0, cp),
         mu2 |-> MeanOf(y, cp, n),
         sigma |-> VarianceOf(y),
         cp_samples |-> <<>>,
         cp_new |-> None,
         alpha |-> "none",
         u |-> "none",
         change_point_index |-> None,
         change_point_value |-> None]

\* lines 228-256: sort, smooth, and the initial state of the search
BayesLocals(data) ==
    LET fastball_data_sorted == SortBySpeed(data)
        y == RollingMean(Wobas(fastball_data_sorted))
        n == Len(y)
        cp == n \div 2
    IN  [live |-> TRUE,
         x_data |-> Speeds(fastball_data_sorted),
         y_data |-> Wobas(fastball_data_sorted),
         y_smoothed |-> y,
         n |-> n,
         cp |-> cp,
         mu1 |-> MeanOf(y, 0, cp),
         mu2 |-> MeanOf(y, cp, n),
         sigma |-> VarianceOf(y),
         cp_samples |-> <<>>,
         cp_new |-> None,
         alpha |-> "none",
         u |-> "none",
         change_point_index |-> None,
         change_point_value |-> None]

BayesStart ==
    /\ pc = "bayes"
    /\ bayes_locals' = BayesLocals(fastball_data)
    /\ fastball_data' = AfterSortValues(fastball_data)
    /\ pc' = "bayes_loop"
    /\ UNCHANGED <<earlier, files_read, calls, rng_pos, entry, request, pitcher_data,
                   cusum_locals, cusum_threshold, bayesian_threshold, outcome, result>>

\* a move to every proposal, whatever the draw
IterateAlwaysMoves(b, cp_new, mu1_new, mu2_new, alpha, u) ==
    [b EXCEPT !.cp = cp_new,
              !.mu1 = mu1_new,
              !.mu2 = mu2_new,
              !.cp_samples = Append(b.cp_samples, cp_new),
              !.cp_new = cp_new,
              !.alpha = alpha,
              !.u = u]

\* an accepted proposal that moves cp and leaves the two means behind
IterateMovesCpOnly(b, cp_new, mu1_new, mu2_new, alpha, u) ==
    LET cp == IF Accepts(u, alpha) THEN cp_new ELSE b.cp
    IN  [b EXCEPT !.cp = cp,
                  !.cp_samples = Append(b.cp_samples, cp),
                  !.cp_new = cp_new,
                  !.alpha = alpha,
                  !.u = u]

\* sigma estimated again when the chain moves, from the rows below the new
\* changepoint
IterateReestimatesSigma(b, cp_new, mu1_new, mu2_new, alpha, u) ==
    LET accepted == Accepts(u, alpha)
        cp == IF accepted THEN cp_new ELSE b.cp
    IN  [b EXCEPT !.cp = cp,
                  !.mu1 = IF accepted THEN mu1_new ELSE b.mu1,
                  !.mu2 = IF accepted THEN mu2_new ELSE b.mu2,
                  !.sigma = IF accepted THEN VarianceOf(Slice(b.y_smoothed, 0, cp_new))
                            ELSE b.sigma,
                  !.cp_samples = Append(b.cp_samples, cp),
                  !.cp_new = cp_new,
                  !.alpha = alpha,
                  !.u = u]

\* the proposal recorded in place of the current changepoint
IterateRecordsProposal(b, cp_new, mu1_new, mu2_new, alpha, u) ==
    LET accepted == Accepts(u, alpha)
    IN  [b EXCEPT !.cp = IF accepted THEN cp_new ELSE b.cp,
                  !.mu1 = IF accepted THEN mu1_new ELSE b.mu1,
                  !.mu2 = IF accepted THEN mu2_new ELSE b.mu2,
                  !.cp_samples = Append(b.cp_samples, cp_new),
                  !.cp_new = cp_new,
                  !.alpha = alpha,
                  !.u = u]

\* lines 269-273: the chain after an iteration that proposed cp_new with the
\* segment means mu1_new, mu2_new, computed alpha and drew u
Iterate(b, cp_new, mu1_new, mu2_new, alpha, u) ==
    LET accepted == Accepts(u, alpha)
        cp == IF accepted THEN cp_new ELSE b.cp
    IN  [b EXCEPT !.cp = cp,
                  !.mu1 = IF accepted THEN mu1_new ELSE b.mu1,
                  !.mu2 = IF accepted THEN mu2_new ELSE b.mu2,
                  !.cp_samples = Append(b.cp_samples, cp),
                  !.cp_new = cp_new,
                  !.alpha = alpha,
                  !.u = u]

\* the margin kept at the upper edge only
ProposalRangeUpperMarginOnly(n) == 1..(n - Margin - 1)

\* np.random.randint taken to include its upper bound, as random.randint does
ProposalRangeClosed(n) == Margin..(n - Margin)

\* proposals over every split with two non-empty segments
ProposalRangeNoMargin(n) == 1..(n - 1)

\* np.random.randint(5, n-5) has values to draw from
ProposalRange(n) == Margin..(n - Margin - 1)

\* one iteration of the loop (lines 258-273): the proposal, the two means, alpha,
\* the draw and the move
BayesIterate ==
    /\ pc = "bayes_loop"
    /\ Len(bayes_locals.cp_samples) < NSamples
    /\ ProposalRange(bayes_locals.n) # {}
    /\ \E log_lik_old \in {log_likelihood(bayes_locals.y_smoothed, bayes_locals.mu1,
                                           bayes_locals.mu2, bayes_locals.sigma,
                                           bayes_locals.cp)} :
         \E cp_new \in ProposalRange(bayes_locals.n) :
           \E mu1_new \in {MeanOf(bayes_locals.y_smoothed, 0, cp_new)},
              mu2_new \in {MeanOf(bayes_locals.y_smoothed, cp_new, bayes_locals.n)} :
             \E log_lik_new \in {log_likelihood(bayes_locals.y_smoothed, mu1_new,
                                                 mu2_new, bayes_locals.sigma, cp_new)} :
               \E u \in Draws :
                 bayes_locals' = Iterate(bayes_locals, cp_new, mu1_new, mu2_new,
                                         Alpha(log_lik_new, log_lik_old), u)
    /\ rng_pos' = rng_pos + 2
    /\ UNCHANGED <<earlier, files_read, calls, entry, pc, request, pitcher_data, fastball_data,
                   cusum_locals, cusum_threshold, bayesian_threshold, outcome, result>>

\* np.random.randint(5, n-5) with n - 5 <= 5 raises ValueError; nothing
\* between it and the caller of the top-level method catches it
BayesProposalFails ==
    /\ pc = "bayes_loop"
    /\ Len(bayes_locals.cp_samples) < NSamples
    /\ ProposalRange(bayes_locals.n) = {}
    /\ Raise("ValueError")
    /\ UNCHANGED <<earlier, files_read, calls, rng_pos, entry, request, pitcher_data, fastball_data,
                   cusum_locals, bayes_locals, cusum_threshold, bayesian_threshold>>

\* the position returned in place of the speed at that position
FinishReturnsIndex(b) ==
    LET idx == Mode(b.cp_samples)
    IN  [b EXCEPT !.cp_new = None, !.alpha = "none", !.u = "none",
                  !.change_point_index = idx, !.change_point_value = idx]

\* np.argmax(cp_samples) in place of np.bincount(cp_samples).argmax(): the
\* position in the trace of its greatest entry
FinishArgMaxOfTrace(b) ==
    LET idx == ArgMax(b.cp_samples) - 1
    IN  [b EXCEPT !.cp_new = None, !.alpha = "none", !.u = "none",
                  !.change_point_index = idx,
                  !.change_point_value = b.x_data[idx + 1]]

\* lines 276-280: bayesian_changepoint returns its samples (the locals of its
\* last iteration go with it), then the most frequent sample and the speed at
\* that position
Finish(b) ==
    LET idx == Mode(b.cp_samples)
    IN  [b EXCEPT !.cp_new = None, !.alpha = "none", !.u = "none",
                  !.change_point_index = idx,
                  !.change_point_value = b.x_data[idx + 1]]

BayesFinish ==
    /\ pc = "bayes_loop"
    /\ Len(bayes_locals.cp_samples) = NSamples
    /\ bayes_locals' = Finish(bayes_locals)
    /\ pc' = "bayes_ret"
    /\ UNCHANGED <<earlier, files_read, calls, rng_pos, entry, request, pitcher_data, fastball_data,
                   cusum_locals, cusum_threshold, bayesian_threshold, outcome, result>>

\* return change_point_value
BayesReturn ==
    /\ pc = "bayes_ret"
    /\ IF entry = "full"
       THEN /\ bayesian_threshold' = bayes_locals.change_point_value
            /\ pc' = "compile"
            /\ UNCHANGED <<outcome, result>>
       ELSE /\ Return([threshold |-> bayes_locals.change_point_value])
            /\ UNCHANGED bayesian_threshold
    /\ UNCHANGED <<earlier, files_read, calls, rng_pos, entry, request, pitcher_data, fastball_data,
                   cusum_locals, bayes_locals, cusum_threshold>>

----------------------------------------------------------------------------

Next ==
    \/ CallRunFullAnalysis
    \/ CallCusum
    \/ CallBayes
    \/ AnalyzePitcher
    \/ CheckPitcherData
    \/ GetFastballData
    \/ CusumCompute
    \/ CusumReturn
    \/ BayesStart
    \/ BayesIterate
    \/ BayesProposalFails
    \/ BayesFinish
    \/ BayesReturn
    \/ CompileResults
    \/ Release

Spec == Init /\ [][Next]_vars

----------------------------------------------------------------------------
(* A caller that repeats a call of perform_cusum_analysis: it calls the     *)
(* detector, notes the frame and the threshold returned, runs the Bayesian  *)
(* detector (which draws from numpy's generator), and calls                 *)
(* perform_cusum_analysis again with the frame it noted.                    *)

\* the repeating caller makes one call more than the others
CanCallAgain == pc = "idle" /\ calls <= MaxCalls

\* a first call of perform_cusum_analysis, on any frame
CallCusumFirst ==
    /\ ~earlier.noted
    /\ CallCusum

\* the caller notes the frame it passed and the threshold it got back
NoteCusumResult ==
    /\ pc = "done" /\ entry = "cusum" /\ outcome = "returned"
    /\ ~earlier.noted
    /\ earlier' = [noted |-> TRUE, frame |-> fastball_data,
                   threshold |-> result.threshold]
    /\ UNCHANGED <<files_read, calls, rng_pos, entry, pc, request, pitcher_data, fastball_data,
                   cusum_locals, bayes_locals, cusum_threshold, bayesian_threshold,
                   outcome, result>>

\* between the two calls: perform_bayesian_changepoint_analysis on the same frame
CallBayesBetween ==
    /\ earlier.noted
    /\ CanCallAgain
    /\ fastball_data' = earlier.frame
    /\ FreshCall("bayes", "bayes")
    /\ request' = NoRequest

\* perform_cusum_analysis again, on the frame noted
CallCusumAgain ==
    /\ earlier.noted
    /\ CanCallAgain
    /\ fastball_data' = earlier.frame
    /\ FreshCall("cusum", "cusum")
    /\ request' = NoRequest

NextRepeat ==
    \/ CallCusumFirst
    \/ NoteCusumResult
    \/ CallBayesBetween
    \/ CallCusumAgain
    \/ CusumCompute
    \/ CusumReturn
    \/ BayesStart
    \/ BayesIterate
    \/ BayesProposalFails
    \/ BayesFinish
    \/ BayesReturn
    \/ Release

SpecRepeat == Init /\ [][NextRepeat]_vars

----------------------------------------------------------------------------
(* Properties. *)

SpeedSet(f) == {f[i].speed : i \in 1..Len(f)}

IsSortedBySpeed(f) == \A i \in 1..(Len(f) - 1) : f[i].speed <= f[i + 1].speed

\* a top-level call of the given method has returned a value
Returned(e) == pc = "done" /\ entry = e /\ outcome = "returned"

\* run_full_analysis has returned a result without an 'error' key
Succeeded == Returned("full") /\ "error" \notin DOMAIN result

\* C1: whenever perform_cusum_analysis or perform_bayesian_changepoint_analysis
\* has computed or returned a threshold, called directly or from
\* run_full_analysis, that threshold is the release_speed of a row of the frame
\* it was given.
C1_SelectionInvariant ==
    /\ cusum_locals.live => cusum_locals.velocity_threshold \in SpeedSet(fastball_data)
    /\ (bayes_locals.live /\ pc \in {"bayes_ret", "compile", "done"} /\ outcome # "raised")
          => bayes_locals.change_point_value \in SpeedSet(fastball_data)
    /\ (Returned("cusum") \/ Returned("bayes")) => result.threshold \in SpeedSet(fastball_data)
    /\ cusum_threshold # None => cusum_threshold \in SpeedSet(fastball_data)
    /\ bayesian_threshold # None => bayesian_threshold \in SpeedSet(fastball_data)

\* C1 witness: both detectors have returned on a frame of several speeds, with
\* different thresholds.
C1_Witness ==
    /\ pc = "compile"
    /\ Cardinality(SpeedSet(fastball_data)) > 2 * Margin
    /\ cusum_threshold # bayesian_threshold

\* C2: a result of run_full_analysis without 'error' carries the thresholds the
\* two detectors returned in this call, and average_threshold is half their sum.
C2_AverageLaw ==
    Succeeded =>
        /\ result.cusum_threshold = cusum_locals.velocity_threshold
        /\ result.bayesian_threshold = bayes_locals.change_point_value
        /\ 2 * result.average_threshold.num =
               (result.cusum_threshold + result.bayesian_threshold)
                   * result.average_threshold.den

\* C2 witness: a successful result whose two thresholds have an odd sum.
C2_Witness ==
    /\ Succeeded
    /\ (result.cusum_threshold + result.bayesian_threshold) % 2 = 1

RECURSIVE CusumRecurrence(_, _)
\* the one-sided CUSUM recurrence on the first m of the deviations d (times
\* Scale * n): S[0] = max(0, d[0] - k), S[i] = max(0, S[i-1] + d[i] - k)
CusumRecurrence(d, m) ==
    IF m = 0 THEN <<>>
    ELSE LET prev == CusumRecurrence(d, m - 1)
             last == IF m = 1 THEN 0 ELSE prev[m - 1]
         IN  Append(prev, Max(0, last + d[m] - k * Scale * Len(d)))

\* C3: the statistic perform_cusum_analysis takes the argmax of obeys the
\* one-sided recurrence S[0] = max(0, d[0] - k), S[i] = max(0, S[i-1] + d[i] - k)
\* on the deviations of the smoothed series from its mean.
C3_CusumRecurrence ==
    cusum_locals.live =>
        cusum_locals.cusum = CusumRecurrence(Deviations(cusum_locals.y_smoothed),
                                             Len(cusum_locals.y_smoothed))

\* the frame is a clean step: low wOBA below 0-based position a, high from a on
IsStepUp(f, a) ==
    /\ 0 < a /\ a < Len(f)
    /\ f = StepFrame(Len(f), a, Len(f), LowWoba, HighWoba)

\* C4: on a clean step (low wOBA for all speeds below the step, high from the
\* step on) the position perform_cusum_analysis selects is within window_size
\* positions of the first row of the higher regime.
C4_CusumStepSanity ==
    \A a \in 1..MaxLen :
        (cusum_locals.live /\ IsStepUp(fastball_data, a))
            => Abs(cusum_locals.threshold_idx - a) <= window_size

\* C5: the Bayesian detector given at most 10 rows ends with a reported
\* condition: it neither raises from the proposal step nor returns a threshold.
C5_SmallNPolicy ==
    (pc = "done" /\ entry = "bayes" /\ Len(fastball_data) <= 2 * Margin)
        => /\ outcome # "raised"
           /\ "threshold" \notin DOMAIN result
           /\ "error" \in DOMAIN result

\* C6: no failure of a detector leaves run_full_analysis as an exception: the
\* call returns, and a call that ends without both thresholds returns a result
\* carrying an error.
C6_DetectorErrorsMapped ==
    (pc = "done" /\ entry = "full")
        => /\ outcome = "returned"
           /\ bayesian_threshold = None => "error" \in DOMAIN result

\* the request leaves no complete row of the requested pitch type
NoData(req) ==
    \/ req.name_parts < 2
    \/ ~req.found
    \/ \A i \in 1..Len(req.raw) :
          \/ req.raw[i].ptype # req.pitch_type
          \/ req.raw[i].speed = NaN
          \/ req.raw[i].woba = NaN

\* C7: when the player name has no two parts, the player is not resolved, no
\* row exists for the years, or no complete row of the pitch type exists,
\* run_full_analysis invokes no detector, raises nothing and returns a dict
\* with an 'error' key.
C7_NoDataIsAValue ==
    (entry = "full" /\ NoData(request))
        => /\ pc \in {"analyze", "check", "done"}
           /\ ~cusum_locals.live /\ ~bayes_locals.live
           /\ outcome # "raised"
           /\ pc = "done" => (outcome = "returned" /\ "error" \in DOMAIN result)

\* C7 witness: rows of the requested pitch type exist, none of them complete,
\* and the call has returned.
C7_Witness ==
    /\ Returned("full")
    /\ NoData(request)
    /\ \E i \in 1..Len(request.raw) : request.raw[i].ptype = request.pitch_type

ThresholdKeys == {"cusum_threshold", "bayesian_threshold", "average_threshold"}

\* C8: a result returned by run_full_analysis either has an 'error' key and no
\* threshold field, or has all of cusum_threshold, bayesian_threshold and
\* average_threshold and no 'error' key.
C8_NoPartialSuccess ==
    Returned("full") =>
        \/ "error" \in DOMAIN result /\ ThresholdKeys \cap DOMAIN result = {}
        \/ "error" \notin DOMAIN result /\ ThresholdKeys \subseteq DOMAIN result

\* C8 witness: a result with thresholds has been returned.
C8_Witness == Succeeded /\ "cusum_threshold" \in DOMAIN result

DetectorPcs == {"cusum", "cusum_ret", "bayes", "bayes_loop", "bayes_ret"}

\* a step of a detector writes no state that outlives the call
StepWritesNothingShared ==
    pc \in DetectorPcs => (fastball_data' = fastball_data /\ rng_pos' = rng_pos)

\* C9 as claimed: no step of a detector writes state that outlives the call
\* (the caller's frame, numpy's generator), so nothing one detector call
\* leaves behind can reach a later one.
C9_NoSharedState == [][StepWritesNothingShared]_vars

\* a step leaves the frame alone, and only an iteration of the search moves
\* the generator, by the two draws it takes
StepWritesGeneratorOnly ==
    /\ pc \in DetectorPcs => fastball_data' = fastball_data
    /\ rng_pos' # rng_pos =>
          (pc = "bayes_loop" /\ pc' = "bayes_loop" /\ rng_pos' = rng_pos + 2)

\* C9 amended: both detectors leave the frame they are given unmodified; the
\* CUSUM detector writes no state that outlives its call; the only such state
\* is numpy's global generator, which each iteration of the Bayesian search
\* advances by two draws.
C9_OnlyGeneratorShared == [][StepWritesGeneratorOnly]_vars

\* C9 witness: after an earlier call that drew from the generator, a detector
\* has returned on a frame that is not in speed order.
C9_Witness ==
    /\ calls = 2 /\ rng_pos > 0
    /\ Returned("cusum")
    /\ ~IsSortedBySpeed(fastball_data)

\* ys has the length of y, and its value at 0-based position i is the mean of
\* y over the positions max(0, i-5) .. min(n, i+5) - 1, a non-empty range
\* (smoothed values are held times Scale)
SmoothedAsClaimed(y, ys) ==
    /\ Len(ys) = Len(y)
    /\ \A i \in 0..(Len(y) - 1) :
          LET lo == Max(0, i - 5)
              hi == Min(Len(y), i + 5)
          IN  /\ lo < hi
              /\ ys[i + 1] * (hi - lo) = Scale * SumSeq(Slice(y, lo, hi))

\* C10: the smoothed series of either detector has the length n of the wOBA
\* series, and its value at 0-based position i is the mean of the raw values
\* at positions max(0, i-5) .. min(n, i+5) - 1, so that windows are cut at the
\* edges and every element is defined, also when n < window_size.
C10_SmoothingWindow ==
    /\ cusum_locals.live => SmoothedAsClaimed(cusum_locals.y_data, cusum_locals.y_smoothed)
    /\ bayes_locals.live => SmoothedAsClaimed(bayes_locals.y_data, bayes_locals.y_smoothed)

\* C10 witness: a series shorter than the window whose smoothed values differ.
C10_Witness ==
    /\ cusum_locals.live
    /\ Len(cusum_locals.y_data) < window_size
    /\ \E i, j \in 1..Len(cusum_locals.y_smoothed) :
          cusum_locals.y_smoothed[i] # cusum_locals.y_smoothed[j]

\* the values of y at the 0-based positions lo .. hi-1
ValuesIn(y, lo, hi) == {y[j] : j \in (lo + 1)..hi}

\* every element of ys (held times Scale) lies between the least and the
\* greatest value of y in the window of its position
SmoothedWithinWindow(y, ys) ==
    \A i \in 0..(Len(y) - 1) :
        LET w == ValuesIn(y, WindowStart(i, Len(y)), WindowEnd(i, Len(y)))
        IN  /\ \E v \in w : Scale * v <= ys[i + 1]
            /\ \E v \in w : ys[i + 1] <= Scale * v

\* C11: every smoothed value of either detector lies between the minimum and
\* the maximum of the raw wOBA values in the window it averages, hence within
\* the minimum and the maximum of the whole raw series.
C11_SmoothingBound ==
    /\ cusum_locals.live
          => /\ SmoothedWithinWindow(cusum_locals.y_data, cusum_locals.y_smoothed)
             /\ \A i \in 1..Len(cusum_locals.y_smoothed) :
                   \E lo, hi \in ValuesIn(cusum_locals.y_data, 0, Len(cusum_locals.y_data)) :
                       /\ Scale * lo <= cusum_locals.y_smoothed[i]
                       /\ cusum_locals.y_smoothed[i] <= Scale * hi
    /\ bayes_locals.live
          => SmoothedWithinWindow(bayes_locals.y_data, bayes_locals.y_smoothed)

\* C11 witness: a series shorter than the window, with a smoothed value
\* strictly between the lowest and the highest raw value.
C11_Witness ==
    /\ cusum_locals.live
    /\ Len(cusum_locals.y_data) < window_size
    /\ \E i \in 1..Len(cusum_locals.y_smoothed) :
          /\ Scale * LowWoba < cusum_locals.y_smoothed[i]
          /\ cusum_locals.y_smoothed[i] < Scale * HighWoba

\* C12: perform_cusum_analysis selects a position holding the global maximum
\* of the statistic, the smallest such position when several hold it, and
\* returns the release_speed at that position of the sorted frame.
C12_CusumTieBreak ==
    cusum_locals.live =>
        LET s == cusum_locals.cusum
            i == cusum_locals.threshold_idx + 1
        IN  /\ i \in 1..Len(s)
            /\ \A j \in 1..Len(s) : s[j] <= s[i]
            /\ \A j \in 1..(i - 1) : s[j] < s[i]
            /\ cusum_locals.velocity_threshold = cusum_locals.x_data[i]
            /\ Returned("cusum") => result.threshold = cusum_locals.x_data[i]

\* C12 witness: every position of the statistic holds its maximum (the
\* statistic is 0 throughout), the frame has distinct speeds, and the call has
\* returned the speed at the first position.
C12_Witness ==
    /\ Returned("cusum")
    /\ Len(cusum_locals.cusum) > window_size
    /\ \A i, j \in 1..Len(cusum_locals.cusum) :
          cusum_locals.cusum[i] = cusum_locals.cusum[j]
    /\ cusum_locals.x_data[1] < cusum_locals.x_data[Len(cusum_locals.x_data)]
    /\ result.threshold = cusum_locals.x_data[1]

\* C13: perform_cusum_analysis on a frame of at least one row raises nothing
\* and returns a threshold (called directly or from run_full_analysis), and
\* on a frame of one row it returns that row's release_speed.
C13_CusumNeverFails ==
    /\ (pc = "done" /\ entry = "cusum")
          => /\ outcome = "returned"
             /\ "threshold" \in DOMAIN result
             /\ Len(fastball_data) = 1 => result.threshold = fastball_data[1].speed
    /\ (entry = "full" /\ outcome = "raised") => cusum_threshold # None
    /\ (entry = "full" /\ pc = "bayes") => cusum_threshold # None

\* C13 witness: a direct call on a frame of one row has returned.
C13_Witness == Returned("cusum") /\ Len(fastball_data) = 1

\* the step series: wOBA 0.300 at 90..95 mph, 0.500 at 96..100 mph
CleanStep == StepFrame(11, 6, 11, LowWoba, HighWoba)

\* C14: on the step series (0.300 at 90-95 mph, 0.500 at 96-100 mph) every
\* sample of the chain is the position of 95 mph, and the speed at the modal
\* changepoint the Bayesian detector returns is within 1 of 96.
C14_BayesCleanStep ==
    (bayes_locals.live /\ bayes_locals.x_data = Speeds(CleanStep)
                       /\ bayes_locals.y_data = Wobas(CleanStep))
        => /\ \A i \in 1..Len(bayes_locals.cp_samples) :
                 bayes_locals.x_data[bayes_locals.cp_samples[i] + 1] = 95
           /\ outcome # "raised"
           /\ bayes_locals.change_point_value # None
                 => Abs(bayes_locals.change_point_value - 96) <= 1
           /\ Returned("bayes") => Abs(result.threshold - 96) <= 1

\* C14 witness: the detector has returned on the step series.
C14_Witness == Returned("bayes") /\ fastball_data = CleanStep

Alarmed(s) == \E i \in 1..Len(s) : s[i] > h * Scale * Len(s)

\* the statistic exceeds h at 1-based position i or before it
AlarmedBy(s, i) == \E j \in 1..i : s[j] > h * Scale * Len(s)

\* C16: h gates nothing.  The position perform_cusum_analysis selects holds
\* the global maximum of the statistic also when the statistic has exceeded h
\* at an earlier position, and the call returns the speed at the selected
\* position also when the statistic never exceeds h.
C16_InertThreshold ==
    /\ cusum_locals.live
          => LET s == cusum_locals.cusum
                 i == cusum_locals.threshold_idx + 1
             IN  /\ \A j \in 1..Len(s) : AlarmedBy(s, j) => s[j] <= s[i]
                 /\ ~Alarmed(s) => cusum_locals.velocity_threshold = cusum_locals.x_data[i]
    /\ (pc = "done" /\ entry = "cusum" /\ ~Alarmed(cusum_locals.cusum))
          => /\ outcome = "returned"
             /\ result = [threshold |-> cusum_locals.velocity_threshold]

\* C16 witness: the statistic exceeds h at a position before its maximum, and
\* the call has returned.
C16_Witness ==
    /\ Returned("cusum")
    /\ AlarmedBy(cusum_locals.cusum, cusum_locals.threshold_idx)

\* C17: when the smoothed series has zero standard deviation, the Bayesian
\* detector (on a series long enough for the proposal step) reports the
\* degeneracy: it computes and returns no threshold.
C17_ZeroVarianceReported ==
    (bayes_locals.live /\ bayes_locals.sigma.num = <<>> /\ bayes_locals.n > 2 * Margin)
        => /\ bayes_locals.change_point_value = None
           /\ pc = "done" => (outcome = "returned" /\ "error" \in DOMAIN result)

\* s holds every row no more often than t does
SubMultiset(s, t) == \A i \in 1..Len(s) : Count(s, s[i]) <= Count(t, s[i])

\* C18: a non-empty frame returned by prepare_velocity_analysis_data has only
\* rows of the requested pitch type, no missing release_speed or wOBA, is in
\* non-decreasing order of release_speed, and holds no row more often than
\* the frame it was made from.
C18_PreparedSeries ==
    (entry = "full" /\ pc # "analyze" /\ ~pitcher_data.none /\ pitcher_data.rows # <<>>)
        => LET f == pitcher_data.rows
           IN  /\ \A i \in 1..Len(f) :
                     /\ f[i].ptype = request.pitch_type
                     /\ f[i].speed # NaN
                     /\ f[i].woba # NaN
               /\ IsSortedBySpeed(f)
               /\ SubMultiset(f, request.raw)

\* C18 witness: a prepared frame of two rows of different speeds made from a
\* frame that held them in the other order.
C18_Witness ==
    /\ entry = "full" /\ pc = "check"
    /\ Len(pitcher_data.rows) = 2
    /\ ~IsSortedBySpeed(request.raw)
    /\ pitcher_data.rows[1].speed < pitcher_data.rows[2].speed

\* C19: in run_full_analysis the Bayesian detector works on the frame the
\* CUSUM detector was given (the rows of the requested pitch type, in the
\* same order, unchanged by the CUSUM call), and both derive the same sorted
\* columns and the same smoothed series from it.
C19_IdenticalSeries ==
    /\ (entry = "full" /\ (cusum_locals.live \/ bayes_locals.live))
          => fastball_data = get_pitch_type_data(pitcher_data.rows, request.pitch_type)
    /\ (entry = "full" /\ bayes_locals.live)
          => /\ cusum_locals.live
             /\ bayes_locals.x_data = cusum_locals.x_data
             /\ bayes_locals.y_data = cusum_locals.y_data
             /\ bayes_locals.y_smoothed = cusum_locals.y_smoothed

\* C19 witness: both detectors have run in one call on a series whose
\* smoothed values are not all equal.
C19_Witness ==
    /\ entry = "full" /\ pc = "compile"
    /\ \E i, j \in 1..Len(bayes_locals.y_smoothed) :
          bayes_locals.y_smoothed[i] # bayes_locals.y_smoothed[j]

\* the draw is below alpha = exp(L(cp_new) - L(cp)): always when the proposal's
\* log-likelihood is not lower, for the lowest draw only when it is lower, and
\* never when the log-likelihoods are nan
DrawBelow(u, alpha) == alpha = "ge1" \/ (alpha = "lt1" /\ u = "min")

\* an iteration of the search: with alpha computed from the chain before the
\* step, the chain moves to the proposal and its segment means when the draw
\* is below alpha and keeps cp, mu1 and mu2 otherwise
StepObeysAcceptanceRule ==
    (pc = "bayes_loop" /\ bayes_locals'.cp_samples # bayes_locals.cp_samples)
        => \E cp_new \in {bayes_locals'.cp_new} :
             \E mu1_new \in {MeanOf(bayes_locals.y_smoothed, 0, cp_new)},
                mu2_new \in {MeanOf(bayes_locals.y_smoothed, cp_new, bayes_locals.n)} :
               \E alpha \in {Alpha(log_likelihood(bayes_locals.y_smoothed, mu1_new,
                                                  mu2_new, bayes_locals.sigma, cp_new),
                                   log_likelihood(bayes_locals.y_smoothed, bayes_locals.mu1,
                                                  bayes_locals.mu2, bayes_locals.sigma,
                                                  bayes_locals.cp))} :
                 /\ cp_new \in ProposalRange(bayes_locals.n)
                 /\ DrawBelow(bayes_locals'.u, alpha)
                       => /\ bayes_locals'.cp = cp_new
                          /\ bayes_locals'.mu1 = mu1_new
                          /\ bayes_locals'.mu2 = mu2_new
                 /\ ~DrawBelow(bayes_locals'.u, alpha)
                       => /\ bayes_locals'.cp = bayes_locals.cp
                          /\ bayes_locals'.mu1 = bayes_locals.mu1
                          /\ bayes_locals'.mu2 = bayes_locals.mu2
                 /\ alpha = "ge1" => bayes_locals'.cp = cp_new

\* C20: in every iteration the chain moves to the proposal (cp, mu1 and mu2
\* together) exactly when the draw u is below exp(L(cp_new) - L(cp)); a
\* proposal whose log-likelihood is not lower is always accepted, and a
\* rejection leaves cp, mu1 and mu2 unchanged.
C20_AcceptanceRule == [][StepObeysAcceptanceRule]_vars

\* C20 witness: an iteration has rejected a proposal of lower log-likelihood
\* that differs from the current changepoint.
C20_Witness ==
    /\ pc = "bayes_loop"
    /\ bayes_locals.alpha = "lt1"
    /\ bayes_locals.u = "max"
    /\ bayes_locals.cp # bayes_locals.cp_new

\* a step of the sampling loop on a series long enough for the proposal: an
\* iteration happens only before the n_samples-th entry and appends the cp it
\* leaves, which differs from the cp it found (the entry before) only when
\* the draw was below alpha; the loop is left only with n_samples entries,
\* which the step leaving it keeps
StepRecordsCurrent ==
    (pc = "bayes_loop" /\ ProposalRange(bayes_locals.n) # {})
        => /\ pc' = "bayes_loop"
                 => \/ bayes_locals' = bayes_locals
                    \/ /\ Len(bayes_locals.cp_samples) < NSamples
                       /\ bayes_locals'.cp_samples
                             = Append(bayes_locals.cp_samples, bayes_locals'.cp)
                       /\ bayes_locals.cp_samples # <<>>
                             => bayes_locals.cp_samples[Len(bayes_locals.cp_samples)]
                                    = bayes_locals.cp
                       /\ bayes_locals'.cp # bayes_locals.cp
                             => Accepts(bayes_locals'.u, bayes_locals'.alpha)
           /\ pc' # "bayes_loop"
                 => /\ pc' = "bayes_ret"
                    /\ Len(bayes_locals.cp_samples) = NSamples
                    /\ bayes_locals'.cp_samples = bayes_locals.cp_samples

Estimated == bayes_locals.live /\ bayes_locals.change_point_index # None

C23_ProposalRange ==
    /\ (bayes_locals.live /\ bayes_locals.cp_new # None)
          => /\ bayes_locals.cp_new \in Int
             /\ 5 <= bayes_locals.cp_new
             /\ bayes_locals.cp_new < bayes_locals.n - 5
    /\ (pc = "bayes_loop" /\ bayes_locals.n > 10)
          => \A v \in 0..bayes_locals.n :
                 (5 <= v /\ v < bayes_locals.n - 5) <=> v \in ProposalRange(bayes_locals.n)

\* C23 witness: on a series with more than one split to propose, one run has
\* proposed the lowest split of the range and then the highest.
C23_Witness ==
    /\ pc = "bayes_loop"
    /\ bayes_locals.n > 11
    /\ Len(bayes_locals.cp_samples) = 2
    /\ bayes_locals.cp_samples[1] = 5
    /\ bayes_locals.cp_samples[1] # bayes_locals.n \div 2
    /\ bayes_locals.cp_new = bayes_locals.n - 6

\* sigma is set where the search starts, with no iteration made yet, to the
\* deviation of the whole smoothed series; no later step changes it; and the
\* likelihoods of an iteration are nan exactly when that sigma is 0
StepKeepsSigma ==
    /\ (pc = "bayes" /\ pc' = "bayes_loop")
          => /\ bayes_locals'.sigma = VarianceOf(bayes_locals'.y_smoothed)
             /\ bayes_locals'.cp_samples = <<>>
    /\ (bayes_locals.live /\ bayes_locals'.live)
          => /\ bayes_locals'.sigma = bayes_locals.sigma
             /\ bayes_locals'.y_smoothed = bayes_locals.y_smoothed
             /\ bayes_locals'.cp_samples # bayes_locals.cp_samples
                   => (bayes_locals'.alpha = "nan" <=> bayes_locals.sigma.num = <<>>)

\* C24: sigma is computed once, before the first iteration, from the whole
\* smoothed series; no iteration changes it, whether the chain moves or not,
\* and the likelihoods of every iteration are taken with it.
C24_FixedSigma == [][StepKeepsSigma]_vars

\* C24 witness: the chain has moved away from its initial split on a series
\* of non-zero deviation, and sigma is still that of the whole series.
C24_Witness ==
    /\ pc = "bayes_loop"
    /\ bayes_locals.cp_samples # <<>>
    /\ bayes_locals.cp # bayes_locals.n \div 2
    /\ bayes_locals.sigma.num # <<>>
    /\ bayes_locals.sigma = VarianceOf(bayes_locals.y_smoothed)

\* C25: in run_full_analysis get_pitch_type_data is applied to a frame that
\* prepare_velocity_analysis_data has already filtered to the pitch type and
\* returns the same rows: a successful result has total_pitches equal to
\* fastball_pitches, and the call never returns the error 'No <pitch_type>
\* data found'.
C25_IdempotentFilter ==
    /\ (entry = "full" /\ pc \notin {"analyze", "check", "filter"} /\ ~pitcher_data.none
                       /\ pitcher_data.rows # <<>>)
          => /\ fastball_data = pitcher_data.rows
             /\ get_pitch_type_data(fastball_data, request.pitch_type) = fastball_data
    /\ Succeeded => result.total_pitches = result.fastball_pitches
    /\ Returned("full") => result # [error |-> "No pitch type data found"]

\* C25 witness: a successful result on a season that held a row of another
\* pitch type, which the first filter removed.
C25_Witness ==
    /\ Succeeded
    /\ Len(request.raw) > result.total_pitches
    /\ \E i \in 1..Len(request.raw) : request.raw[i].ptype # request.pitch_type

\* C26: from the start of the search on, after every iteration, mu1 is the
\* mean of the smoothed values at positions [0, cp) and mu2 the mean of those
\* at [cp, n) for the current cp (a mean being the sum over the count, the
\* count 0 standing for the nan of an empty segment).
C26_ChainConsistency ==
    bayes_locals.live
        => LET b == bayes_locals
           IN  /\ b.n = Len(b.y_smoothed)
               /\ b.mu1.den = b.cp
               /\ b.mu1.num = SumSeq(SubSeq(b.y_smoothed, 1, b.cp))
               /\ b.mu2.den = b.n - b.cp
               /\ b.mu2.num = SumSeq(SubSeq(b.y_smoothed, b.cp + 1, b.n))

\* C26 witness: an iteration has moved the chain away from its initial split,
\* and the mean of the lower segment has moved with it.
C26_Witness ==
    /\ pc = "bayes_loop"
    /\ bayes_locals.cp_samples # <<>>
    /\ bayes_locals.cp # bayes_locals.n \div 2
    /\ bayes_locals.mu1.num * (bayes_locals.n \div 2)
          # SumSeq(SubSeq(bayes_locals.y_smoothed, 1, bayes_locals.n \div 2))
                * bayes_locals.mu1.den

\* C27: on a series of n > 10 rows the initial cp = n // 2, every entry of
\* the trace and the index returned lie in [5, n - 5); both segments of every
\* split the chain holds or proposes are non-empty; and the threshold is the
\* speed at a position that is neither among the 5 lowest nor among the 5
\* highest of the sorted series.
C27_EdgeMargin ==
    (bayes_locals.live /\ bayes_locals.n > 10)
        => LET b == bayes_locals
               inner == {j \in 0..(b.n - 1) : 5 <= j /\ j < b.n - 5}
           IN  /\ b.n \div 2 \in inner
               /\ b.cp \in inner
               /\ \A i \in 1..Len(b.cp_samples) : b.cp_samples[i] \in inner
               /\ b.mu1.den > 0 /\ b.mu2.den > 0
               /\ b.cp_new # None => (0 < b.cp_new /\ b.cp_new < b.n)
               /\ b.change_point_index # None
                     => /\ b.change_point_index \in inner
                        /\ b.change_point_value = b.x_data[b.change_point_index + 1]
               /\ (pc = "done" /\ outcome = "returned" /\ entry = "bayes")
                     => \E j \in inner : result.threshold = b.x_data[j + 1]
               /\ Succeeded
                     => \E j \in inner : result.bayesian_threshold = b.x_data[j + 1]

\* C27 witness: the detector has returned the speed at position 5, the
\* lowest position the margin allows, which is not the initial split.
C27_Witness ==
    /\ Returned("bayes")
    /\ bayes_locals.n > 11
    /\ bayes_locals.change_point_index = 5
    /\ result.threshold = bayes_locals.x_data[6]

NonDecreasing(s) == \A i \in 1..(Len(s) - 1) : s[i] <= s[i + 1]

\* C28: when the smoothed series does not decrease along the sorted speeds
\* (a constant series, a step from low to high), the clamped statistic is 0
\* at every position and perform_cusum_analysis returns the smallest speed of
\* the series.
C28_DegenerateCusum ==
    (cusum_locals.live /\ NonDecreasing(cusum_locals.y_smoothed))
        => LET c == cusum_locals
           IN  /\ \A i \in 1..Len(c.cusum) : c.cusum[i] = 0
               /\ c.threshold_idx = 0
               /\ \A i \in 1..Len(c.x_data) : c.velocity_threshold <= c.x_data[i]
               /\ \E i \in 1..Len(fastball_data) :
                      c.velocity_threshold = fastball_data[i].speed
               /\ Returned("cusum") => result.threshold = c.velocity_threshold
               /\ (entry = "full" /\ pc \in {"bayes", "bayes_loop", "bayes_ret", "compile"})
                     => cusum_threshold = c.velocity_threshold

\* C28 witness: the detector has returned the lowest speed of a series longer
\* than the window whose smoothed values rise from a low to a high level.
C28_Witness ==
    /\ Returned("cusum")
    /\ Len(cusum_locals.y_smoothed) > window_size
    /\ NonDecreasing(cusum_locals.y_smoothed)
    /\ cusum_locals.y_smoothed[1] < cusum_locals.y_smoothed[Len(cusum_locals.y_smoothed)]
    /\ result.threshold = BaseSpeed

\* C29: a call of run_full_analysis with start_year > end_year reads no
\* season file, invokes neither detector and returns the error result 'No
\* data found for player'.
C29_InvertedYearRange ==
    (entry = "full" /\ request.start_year > request.end_year)
        => /\ files_read = {}
           /\ pc \in {"analyze", "check", "done"}
           /\ ~cusum_locals.live /\ ~bayes_locals.live
           /\ pc = "done"
                 => /\ outcome = "returned"
                    /\ result = [error |-> "No data found for player"]

\* C29 witness: the call has returned the error for a resolved player whose
\* rows of a full season are on file.
C29_Witness ==
    /\ Returned("full")
    /\ request.start_year > request.end_year
    /\ request.name_parts = 2 /\ request.found
    /\ Len(request.raw) > 2 * Margin
    /\ result = [error |-> "No data found for player"]

\* C30: of the changepoint indices recorded most often, the Bayesian search
\* returns the smallest.
C30_ModeTieBreak ==
    Estimated
        => LET s == bayes_locals.cp_samples
               idx == bayes_locals.change_point_index
           IN  \A i \in 1..Len(s) :
                   (\A j \in 1..Len(s) : Count(s, s[j]) <= Count(s, s[i])) => idx <= s[i]

\* C30 witness: two indices are recorded equally often and most often, the
\* larger one first, and the search has returned the smaller.
C30_Witness ==
    /\ Estimated
    /\ \E i, j \in 1..Len(bayes_locals.cp_samples) :
          LET s == bayes_locals.cp_samples
          IN  /\ i < j
              /\ s[i] > s[j]
              /\ Count(s, s[i]) = Count(s, s[j])
              /\ \A m \in 1..Len(s) : Count(s, s[m]) <= Count(s, s[j])
              /\ bayes_locals.change_point_index = s[j]

====
